---- MODULE Spec2Model ----
(***************************************************************************)
(* Panel layout and border compositing of the television screen module:    *)
(*   screen/layout_ext.rs            portrait_merged_constraints           *)
(*   screen/input.rs                 draw_input_box                        *)
(*   screen/merged_input_results.rs  draw_merged_input_results             *)
(*   screen/results.rs               draw_results_list, draw_shared_border *)
(*                                                                         *)
(* One frame is one draw call: from "idle" a renderer (or the planner) is  *)
(* called with its arguments and leaves its outcome in res; NextFrame      *)
(* starts the next redraw.  u16 values are naturals below 2^16, Option     *)
(* values are sequences of length 0 (None) or 1 (Some), strings are        *)
(* sequences of characters.                                                *)
(***************************************************************************)
EXTENDS Integers, Sequences, FiniteSets

VARIABLES pc, call, res

vars == <<pc, call, res>>

---------------------------------------------------------------------------
(* Bounds of the explored inputs *)

MaxWidth == 14
MaxHeight == 3
MaxScrollChoices == 2
MaxSmallTotal == 12

---------------------------------------------------------------------------
(* Primitive types *)

U16Max == 65535

None == <<>>
Some(v) == <<v>>
IsSome(o) == Len(o) = 1
Unwrap(o) == o[1]

Min2(a, b) == IF a <= b THEN a ELSE b
Max2(a, b) == IF a >= b THEN a ELSE b

\* u16::saturating_add / u16::saturating_sub
SatAdd(a, b) == Min2(a + b, U16Max)
SatSub(a, b) == Max2(a - b, 0)

\* u16 arithmetic of a build without overflow checks: the value wraps
WrapU16(n) == n % (U16Max + 1)
FitsU16(n) == 0 <= n /\ n <= U16Max

Repeat(g, n) == [i \in 1..n |-> g]

\* u32 values are two 16-bit limbs, hi * 2^16 + lo.
MkU32(hi, lo) == [hi |-> hi, lo |-> lo]
U32(n) == MkU32(n \div (U16Max + 1), n % (U16Max + 1))
U32Max == MkU32(U16Max, U16Max)
U32Geq(a, b) == a.hi > b.hi \/ (a.hi = b.hi /\ a.lo >= b.lo)
U32MaxOf(a, b) == IF U32Geq(a, b) THEN a ELSE b
U32Mul10(a) ==
  MkU32(a.hi * 10 + (a.lo * 10) \div (U16Max + 1), (a.lo * 10) % (U16Max + 1))
U32Div10(a) ==
  MkU32(a.hi \div 10, ((a.hi % 10) * (U16Max + 1) + a.lo) \div 10)

RECURSIVE U32Pow10(_)
U32Pow10(k) == IF k = 0 THEN U32(1) ELSE U32Mul10(U32Pow10(k - 1))

RECURSIVE SumSeq(_)
SumSeq(s) == IF s = <<>> THEN 0 ELSE Head(s) + SumSeq(Tail(s))

---------------------------------------------------------------------------
(* ratatui::layout::Rect *)

MkRect(x, y, w, h) == [x |-> x, y |-> y, width |-> w, height |-> h]
ZeroRect == MkRect(0, 0, 0, 0)
Area(r) == r.width * r.height
RectRight(r) == SatAdd(r.x, r.width)
RectBottom(r) == SatAdd(r.y, r.height)

Intersection(a, b) ==
  LET x1 == Max2(a.x, b.x)
      y1 == Max2(a.y, b.y)
      x2 == Min2(RectRight(a), RectRight(b))
      y2 == Min2(RectBottom(a), RectBottom(b))
  IN MkRect(x1, y1, SatSub(x2, x1), SatSub(y2, y1))

\* The terminal buffer of the frame: every widget renders into the
\* intersection of its area with the buffer.
BufferArea == MkRect(0, 0, MaxWidth + 4, MaxHeight + 4)

\* Frame::render_widget(widget, area): nothing is written for an empty area.
Render(widget, area) ==
  LET a == Intersection(area, BufferArea)
  IN IF Area(a) = 0 THEN {} ELSE {[widget |-> widget, area |-> a]}

---------------------------------------------------------------------------
(* config::ui::Padding, config::ui::BorderType, InputPosition *)

MkPadding(t, b, l, r) == [top |-> t, bottom |-> b, left |-> l, right |-> r]
NoPadding == MkPadding(0, 0, 0, 0)

InputPositions == {"Top", "Bottom"}

AllBorders == {"TOP", "BOTTOM", "LEFT", "RIGHT"}

\* BorderType::to_ratatui_border_type: None has no ratatui border type.
to_ratatui_border_type(border_type) ==
  IF border_type = "None" THEN None ELSE Some(border_type)

\* Block::inner(area) for a block with the given borders, titles and padding.
Inner(area, borders, title_top, title_bottom, padding) ==
  LET left == "LEFT" \in borders
      top == "TOP" \in borders \/ title_top
      right == "RIGHT" \in borders
      bottom == "BOTTOM" \in borders \/ title_bottom
      x1 == IF left THEN Min2(SatAdd(area.x, 1), RectRight(area)) ELSE area.x
      w1 == IF left THEN SatSub(area.width, 1) ELSE area.width
      y1 == IF top THEN Min2(SatAdd(area.y, 1), RectBottom(area)) ELSE area.y
      h1 == IF top THEN SatSub(area.height, 1) ELSE area.height
      w2 == IF right THEN SatSub(w1, 1) ELSE w1
      h2 == IF bottom THEN SatSub(h1, 1) ELSE h1
  IN MkRect(SatAdd(x1, padding.left), SatAdd(y1, padding.top),
            SatSub(w2, padding.left + padding.right),
            SatSub(h2, padding.top + padding.bottom))

---------------------------------------------------------------------------
(* layout_ext.rs: portrait_merged_constraints *)

Fill(w) == [kind |-> "Fill", v |-> w]
Percentage(p) == [kind |-> "Percentage", v |-> p]
Length(n) == [kind |-> "Length", v |-> n]

\* The preview share left at 0 while the merged share is halved.
portrait_merged_constraints_gap(input_position, preview_hidden) ==
  LET cs == IF preview_hidden THEN <<Fill(1)>>
            ELSE IF input_position = "Top"
                 THEN <<Percentage(50), Percentage(0)>>
                 ELSE <<Percentage(0), Percentage(50)>>
      ri == IF ~preview_hidden /\ input_position = "Bottom" THEN 1 ELSE 0
  IN [constraints |-> cs, input_idx |-> ri, results_idx |-> ri,
      preview_idx |-> IF preview_hidden THEN None ELSE Some(1 - ri)]

\* The Bottom arm given the indices of the Top arm.
portrait_merged_constraints_top_indices(input_position, preview_hidden) ==
  [constraints |-> IF preview_hidden THEN <<Fill(1)>>
                   ELSE IF input_position = "Top"
                        THEN <<Percentage(100), Percentage(0)>>
                        ELSE <<Percentage(0), Percentage(100)>>,
   input_idx |-> 0, results_idx |-> 0,
   preview_idx |-> IF preview_hidden THEN None ELSE Some(1)]

portrait_merged_constraints(input_position, preview_hidden) ==
  LET top == IF preview_hidden
             THEN [constraints |-> <<Fill(1)>>,
                   results_idx |-> 0, preview_idx |-> None]
             ELSE [constraints |-> <<Percentage(100), Percentage(0)>>,
                   results_idx |-> 0, preview_idx |-> Some(1)]
      bottom == IF preview_hidden
                THEN [constraints |-> <<Fill(1)>>,
                      results_idx |-> 0, preview_idx |-> None]
                ELSE [constraints |-> <<Percentage(0), Percentage(100)>>,
                      results_idx |-> 1, preview_idx |-> Some(0)]
      m == IF input_position = "Top" THEN top ELSE bottom
  IN [constraints |-> m.constraints, input_idx |-> m.results_idx,
      results_idx |-> m.results_idx, preview_idx |-> m.preview_idx]

\* The bounding rect anchored at the input's corner.
merge_input_results_rects_input_origin(input, results) ==
  LET max_x == Max2(input.x + input.width, results.x + results.width)
      max_y == Max2(input.y + input.height, results.y + results.height)
  IN {[ret |-> "Ok",
       pair |-> <<ZeroRect, MkRect(input.x, input.y, SatSub(max_x, input.x),
                                   SatSub(max_y, input.y))>>]}

\* merge_input_results_rects: (Rect::default(), the bounding rect).  The
\* sums x + width and y + height are unchecked u16 additions: past 65535 a
\* build with overflow checks panics, one without them wraps.
merge_input_results_rects(input, results) ==
  LET sums == <<input.x + input.width, results.x + results.width,
                input.y + input.height, results.y + results.height>>
      min_x == Min2(input.x, results.x)
      min_y == Min2(input.y, results.y)
      max_x == Max2(WrapU16(sums[1]), WrapU16(sums[2]))
      max_y == Max2(WrapU16(sums[3]), WrapU16(sums[4]))
      merged == MkRect(min_x, min_y, SatSub(max_x, min_x), SatSub(max_y, min_y))
      ok == [ret |-> "Ok", pair |-> <<ZeroRect, merged>>]
  IN IF \E i \in 1..4 : ~FitsU16(sums[i])
     THEN {[ret |-> "panic", pair |-> <<>>], ok}
     ELSE {ok}

\* Split of a vertical extent by Percentage and Fill constraints: every
\* Percentage(p) asks for p % of the extent, the Fill segments share what the
\* percentages leave, and the segment boundaries are the rounded running sums
\* (kept inside the extent).  Extents are in hundredths of a cell until
\* rounded.
Wanted100(constraints, total) ==
  LET pct == [i \in 1..Len(constraints) |->
                IF constraints[i].kind = "Percentage"
                THEN total * constraints[i].v ELSE 0]
      fills == {i \in 1..Len(constraints) : constraints[i].kind = "Fill"}
      weights == SumSeq([i \in 1..Len(constraints) |->
                           IF i \in fills THEN constraints[i].v ELSE 0])
      rest == Max2(total * 100 - SumSeq(pct), 0)
  IN [i \in 1..Len(constraints) |->
        IF i \in fills THEN (rest * constraints[i].v) \div weights ELSE pct[i]]

Round100(e) == (e + 50) \div 100

SplitVertical(constraints, area) ==
  LET want == Wanted100(constraints, area.height)
      edge(k) == Min2(Round100(SumSeq(SubSeq(want, 1, k))), area.height)
  IN [i \in 1..Len(constraints) |->
        MkRect(area.x, area.y + edge(i - 1), area.width, edge(i) - edge(i - 1))]

---------------------------------------------------------------------------
(* results.rs: draw_shared_border *)

\* ratatui::symbols::border::{PLAIN, ROUNDED, DOUBLE, THICK}: the four glyphs
\* the painter reads.  One glyph is one character.
BorderSet(border_type) ==
  CASE border_type = "Double" ->
         [vertical_left |-> "double_vertical", vertical_right |-> "double_vertical",
          horizontal_top |-> "double_horizontal",
          horizontal_bottom |-> "double_horizontal"]
    [] border_type = "Thick" ->
         [vertical_left |-> "thick_vertical", vertical_right |-> "thick_vertical",
          horizontal_top |-> "thick_horizontal",
          horizontal_bottom |-> "thick_horizontal"]
    [] OTHER ->
         [vertical_left |-> "vertical", vertical_right |-> "vertical",
          horizontal_top |-> "horizontal", horizontal_bottom |-> "horizontal"]

SharedBorderStyles == {"Plain", "Rounded", "Double", "Thick"}

\* format!(" {} ", h)
Titled(h) == <<" ">> \o h \o <<" ">>

\* The right run given the length of the left run.
SharedBorderFill_equal_runs(width, header, line_char) ==
  LET available_width == SatSub(width, 2)
  IN IF IsSome(header) /\ Unwrap(header) # <<>>
        /\ Len(Titled(Unwrap(header))) <= available_width
     THEN LET left_padding ==
                (available_width - Len(Titled(Unwrap(header)))) \div 2
          IN Repeat(line_char, left_padding) \o Titled(Unwrap(header))
               \o Repeat(line_char, left_padding)
     ELSE Repeat(line_char, available_width)

\* The larger half of an odd remainder given to the left run.
SharedBorderFill_left_heavy(width, header, line_char) ==
  LET available_width == SatSub(width, 2)
  IN IF IsSome(header) /\ Unwrap(header) # <<>>
        /\ Len(Titled(Unwrap(header))) <= available_width
     THEN LET rest == available_width - Len(Titled(Unwrap(header)))
              left_padding == (rest + 1) \div 2
          IN Repeat(line_char, left_padding) \o Titled(Unwrap(header))
               \o Repeat(line_char, rest - left_padding)
     ELSE Repeat(line_char, available_width)

\* The String built between the two junction characters (lines 191-221).
SharedBorderFill(width, header, line_char) ==
  LET available_width == SatSub(width, 2)
  IN IF IsSome(header) /\ Unwrap(header) # <<>>
     THEN LET header_text == Titled(Unwrap(header))
              header_len == Len(header_text)
          IN IF header_len <= available_width
             THEN LET left_padding == (available_width - header_len) \div 2
                      right_padding == available_width - header_len - left_padding
                  IN Repeat(line_char, left_padding) \o header_text
                       \o Repeat(line_char, right_padding)
             ELSE Repeat(line_char, available_width)
     ELSE Repeat(line_char, available_width)

\* The outcomes of the painter.  The row computation rect.y + rect.height - 1
\* underflows for an empty rect at row 0: a build with overflow checks
\* panics there, one without them goes on with the wrapped row.  line and
\* border_rect are None when the painter returns before composing.
draw_shared_border(rect, input_bar_position, border_type, header) ==
  LET skip == [ret |-> "Ok", line |-> None, border_rect |-> None, drawn |-> {}]
      panic == [ret |-> "panic", line |-> None, border_rect |-> None, drawn |-> {}]
      border_set == BorderSet(border_type)
      row == IF input_bar_position = "Top"
             THEN rect.y ELSE rect.y + rect.height - 1
      left_char == border_set.vertical_left
      right_char == border_set.vertical_right
      line_char == IF input_bar_position = "Top"
                   THEN border_set.horizontal_top
                   ELSE border_set.horizontal_bottom
      painted ==
        IF rect.width < 2 THEN skip
        ELSE LET y == WrapU16(row)
                 border_line == <<left_char>>
                                  \o SharedBorderFill(rect.width, header, line_char)
                                  \o <<right_char>>
                 border_rect == MkRect(rect.x, y, rect.width, 1)
             IN [ret |-> "Ok", line |-> Some(border_line),
                 border_rect |-> Some(border_rect),
                 drawn |-> Render("shared_border", border_rect)]
  IN IF border_type \notin SharedBorderStyles THEN {skip}
     ELSE IF ~FitsU16(row) THEN {panic, painted}
     ELSE {painted}

---------------------------------------------------------------------------
(* results.rs: draw_results_list *)

\* The title of the results block (lines 39-79): None when no title is set.
ResultsTitle(header, merge_with_input) ==
  IF IsSome(header)
  THEN IF Unwrap(header) # <<>> THEN Some(Titled(Unwrap(header))) ELSE None
  ELSE IF merge_with_input THEN None
       ELSE Some(<<" ", "R", "e", "s", "u", "l", "t", "s", " ">>)

\* Where that title sits: title_top() without merge, the input side with it.
ResultsTitlePosition(input_bar_position, merge_with_input) ==
  IF merge_with_input THEN input_bar_position ELSE "Top"

ResultsBorders(results_panel_border_type) ==
  IF IsSome(to_ratatui_border_type(results_panel_border_type))
  THEN AllBorders ELSE {}

\* The interior of the results block, as Block::inner gives it.
ResultsInner(rect, input_bar_position, results_panel_padding, results_panel_border_type, header, merge_with_input) ==
  LET title == ResultsTitle(header, merge_with_input)
      pos == ResultsTitlePosition(input_bar_position, merge_with_input)
  IN Inner(rect, ResultsBorders(results_panel_border_type),
           IsSome(title) /\ pos = "Top", IsSome(title) /\ pos = "Bottom",
           results_panel_padding)

\* The outcomes of the renderer.  rect.width - 1 underflows for a rect of
\* width 0: a panic, or the wrapped width handed to the row formatter.
draw_results_list(rect, input_bar_position, results_panel_padding, results_panel_border_type, header, merge_with_input) ==
  LET title == ResultsTitle(header, merge_with_input)
      inner == ResultsInner(rect, input_bar_position, results_panel_padding,
                            results_panel_border_type, header, merge_with_input)
      base == [ret |-> "Ok", drawn |-> {}, cursor |-> None, inner |-> inner,
               title |-> title, list_width |-> None, shared |-> None]
      \* rect.width - 1, // right padding
      list_width == rect.width - 1
      list == Render("results_list", rect)
      b == to_ratatui_border_type(results_panel_border_type)
      drawn1 == [base EXCEPT !.list_width = Some(WrapU16(list_width)),
                             !.drawn = list]
      rendered ==
        IF merge_with_input /\ IsSome(b)
        THEN {[drawn1 EXCEPT !.ret = s.ret,
                             !.drawn = list \cup s.drawn,
                             !.shared = Some(s)] :
                s \in draw_shared_border(rect, input_bar_position,
                                         Unwrap(b), header)}
        ELSE {drawn1}
  IN IF ~FitsU16(list_width)
     THEN {[base EXCEPT !.ret = "panic"]} \cup rendered
     ELSE rendered

---------------------------------------------------------------------------
(* The input row shared by input.rs and merged_input_results.rs *)

\* config::ui::DEFAULT_PROMPT has one character.
DefaultPromptChars == 1

\* utils::input::Input: the text-editing state is its visual cursor column.
\* visual_scroll(width) answers a scroll offset that keeps the cursor inside
\* the width it was given: 0 <= visual_cursor - scroll <= width.
visual_cursor(input_state) == input_state.visual_cursor

visual_scroll(input_state, width) ==
  LET vc == visual_cursor(input_state)
      lo == Max2(vc - width, 0)
  IN {s \in lo..vc : s - lo < MaxScrollChoices \/ s = vc}

\* 3 * (u16::try_from(total_count.max(1).ilog10()).unwrap() + 1) + 3
\* u32::ilog10: the largest k with 10^k <= n, for n >= 1 (at most 9).
ilog10(n) ==
  CHOOSE k \in 0..9 :
    U32Geq(n, U32Pow10(k)) /\ (k = 9 \/ ~U32Geq(n, U32Pow10(k + 1)))

\* The digit count taken for ilog10 itself.
count_len_no_plus_one(total_count) ==
  3 * ilog10(U32MaxOf(total_count, U32(1))) + 3

count_len(total_count) == 3 * (ilog10(U32MaxOf(total_count, U32(1))) + 1) + 3

\* Layout::split of a row by [Length(a), Fill(1), Length(c), Length(d)].
\* When the lengths fit, each gets its length and the Fill the remainder.
\* When they do not, the Fill gets nothing and the solver shortens the
\* equally ranked Length segments in a way the caller does not control:
\* every way of sharing the row among them is possible.
SplitRow(area, a, c, d) ==
  LET total == area.width
      row(wa, wf, wc, wd) ==
        << MkRect(area.x, area.y, wa, area.height),
           MkRect(area.x + wa, area.y, wf, area.height),
           MkRect(area.x + wa + wf, area.y, wc, area.height),
           MkRect(area.x + wa + wf + wc, area.y, wd, area.height) >>
  IN IF a + c + d <= total
     THEN {row(a, total - (a + c + d), c, d)}
     ELSE {row(wa, 0, total - wa - wd, wd) :
             <<wa, wd>> \in {p \in (0..Min2(a, total)) \X (0..Min2(d, total)) :
                               /\ p[1] + p[2] <= total
                               /\ total - p[1] - p[2] <= c}}

\* The part of both renderers from the text field on: the scroll offset,
\* the text, the busy indicator, the counter and the cursor.  so_far is the
\* outcome up to the prompt, chunks the four columns of the row.
InputRowTail(so_far, chunks, input_state, matcher_running, indicator_widget) ==
  LET \* keep 2 for borders and 1 for cursor
      width == Max2(chunks[2].width, 3) - 3
      tail(scroll) ==
        LET at_scroll == [so_far EXCEPT !.width = Some(width),
                                        !.scroll = Some(scroll)]
            offset == Max2(visual_cursor(input_state), scroll) - scroll
            widgets == so_far.drawn
                         \cup Render("input_text", chunks[2])
                         \cup (IF matcher_running
                               THEN Render(indicator_widget, chunks[4]) ELSE {})
                         \cup Render("result_count", chunks[3])
        IN IF ~FitsU16(scroll) THEN [at_scroll EXCEPT !.ret = "Err"]
           ELSE IF ~FitsU16(offset)
           THEN [at_scroll EXCEPT !.ret = "Err", !.drawn = widgets]
           ELSE [at_scroll EXCEPT
                   !.drawn = widgets,
                   !.cursor = Some([x |-> SatAdd(chunks[2].x, offset),
                                    y |-> chunks[2].y])]
  IN {tail(scroll) : scroll \in visual_scroll(input_state, width)}

---------------------------------------------------------------------------
(* input.rs: draw_input_box *)

ChannelName == <<"t", "v">>

\* Header behavior: None => channel name, Some("") => no header,
\* Some(non-empty) => the value.
InputTitle(header) ==
  IF IsSome(header)
  THEN IF Unwrap(header) # <<>> THEN Some(Titled(Unwrap(header))) ELSE None
  ELSE Some(Titled(ChannelName))

InputBorders(border_type, merge_with_results, position) ==
  IF IsSome(to_ratatui_border_type(border_type))
  THEN IF merge_with_results
       THEN IF position = "Top" THEN {"TOP", "LEFT", "RIGHT"}
            ELSE {"BOTTOM", "LEFT", "RIGHT"}
       ELSE AllBorders
  ELSE {}

InputInner(rect, position, header, padding, border_type, merge_with_results) ==
  LET title == InputTitle(header)
  IN Inner(rect, InputBorders(border_type, merge_with_results, position),
           IsSome(title) /\ position = "Top",
           IsSome(title) /\ position = "Bottom", padding)

\* The busy-indicator column of the single-panel row: Constraint::Length(1)
spinner_len(matcher_running) == 1

\* The prompt column: char count + 1, which must fit u16 (expect), else 2.
\* None when the expect fails.
input_prompt_len(prompt) ==
  IF IsSome(prompt)
  THEN IF FitsU16(Unwrap(prompt) + 1) THEN Some(Unwrap(prompt) + 1) ELSE None
  ELSE Some(2)

draw_input_box(rect, total_count, input_state, matcher_running, position, header, padding, border_type, prompt, merge_with_results) ==
  LET inner == InputInner(rect, position, header, padding, border_type,
                          merge_with_results)
      base == [ret |-> "Ok", drawn |-> {}, cursor |-> None, inner |-> inner,
               title |-> InputTitle(header),
               borders |-> InputBorders(border_type, merge_with_results, position),
               prompt_len |-> None, count_len |-> None, indicator_len |-> None,
               chunks |-> <<>>, width |-> None, scroll |-> None]
      block == [base EXCEPT !.drawn = Render("input_block", rect)]
      p == input_prompt_len(prompt)
  IN IF Area(inner) = 0 THEN {base}
     ELSE IF ~IsSome(p) THEN {[block EXCEPT !.ret = "panic"]}
     ELSE UNION {
            InputRowTail(
              [block EXCEPT !.prompt_len = p,
                            !.count_len = Some(count_len(total_count)),
                            !.indicator_len = Some(spinner_len(matcher_running)),
                            !.chunks = chunks,
                            !.drawn = @ \cup Render("prompt", chunks[1])],
              chunks, input_state, matcher_running, "spinner")
            : chunks \in SplitRow(inner, Unwrap(p), count_len(total_count),
                                  spinner_len(matcher_running))}

---------------------------------------------------------------------------
(* merged_input_results.rs: draw_merged_input_results *)

\* input_header.as_ref().map_or(channel_name, ..): the outer block always
\* carries a title, format!(" {} ", header_text).
MergedTitle(input_header) ==
  IF IsSome(input_header) THEN Some(Titled(Unwrap(input_header)))
  ELSE Some(Titled(ChannelName))

MergedBorders(input_border_type) ==
  IF IsSome(to_ratatui_border_type(input_border_type)) THEN AllBorders ELSE {}

MergedInner(rect, position, input_border_type) ==
  Inner(rect, MergedBorders(input_border_type),
        position = "Top", position = "Bottom", NoPadding)

\* The column reserved whether or not the matcher runs.
indicator_len_always(matcher_running) == 2

\* let indicator_len: u16 = if matcher_running { 2 } else { 0 };
indicator_len(matcher_running) == IF matcher_running THEN 2 ELSE 0

\* u16::try_from(prompt_str.chars().count() + 1).unwrap_or(2)
merged_prompt_len(input_prompt) ==
  LET chars == IF IsSome(input_prompt) THEN Unwrap(input_prompt)
               ELSE DefaultPromptChars
  IN IF FitsU16(chars + 1) THEN chars + 1 ELSE 2

\* Layout::split of the interior by [Length(input_row_height), Length(1),
\* Min(1)] (Top) or the reverse (Bottom).  When the three fit, the Min
\* segment takes the remainder.  When they do not, the Min segment keeps
\* its minimum first and the two Length segments share the rest in a way
\* the caller does not control.  Answers <<input, separator, results>>.
\* The input row laid out first whatever the position.
SplitMerged_input_first(inner, input_row_height, position) ==
  LET total == inner.height
      at(y, h) == MkRect(inner.x, y, inner.width, h)
      place(hi, hs, hr) ==
        << at(inner.y, hi), at(inner.y + hi, hs), at(inner.y + hi + hs, hr) >>
      hmin == Min2(1, total)
  IN IF input_row_height + 1 + 1 <= total
     THEN {place(input_row_height, 1, total - input_row_height - 1)}
     ELSE {place(total - hmin - hs, hs, hmin) :
             hs \in {h \in 0..Min2(1, total - hmin) :
                       total - hmin - h <= input_row_height}}

SplitMerged(inner, input_row_height, position) ==
  LET total == inner.height
      at(y, h) == MkRect(inner.x, y, inner.width, h)
      place(hi, hs, hr) ==
        IF position = "Top"
        THEN << at(inner.y, hi), at(inner.y + hi, hs), at(inner.y + hi + hs, hr) >>
        ELSE << at(inner.y + hr + hs, hi), at(inner.y + hr, hs), at(inner.y, hr) >>
      hmin == Min2(1, total)
  IN IF input_row_height + 1 + 1 <= total
     THEN {place(input_row_height, 1, total - input_row_height - 1)}
     ELSE {place(total - hmin - hs, hs, hmin) :
             hs \in {h \in 0..Min2(1, total - hmin) :
                       total - hmin - h <= input_row_height}}

\* A sub-region with its padding applied: the rect itself without padding.
Padded(rect, padding) ==
  IF padding.top > 0 \/ padding.bottom > 0 \/ padding.left > 0 \/ padding.right > 0
  THEN Inner(rect, {}, FALSE, FALSE, padding)
  ELSE rect

PadBlock(rect, padding) ==
  IF padding.top > 0 \/ padding.bottom > 0 \/ padding.left > 0 \/ padding.right > 0
  THEN Render("pad_block", rect)
  ELSE {}

draw_merged_input_results(rect, total_count, input_state, matcher_running, position, input_header, input_padding, input_border_type, input_prompt, results_padding) ==
  LET inner == MergedInner(rect, position, input_border_type)
      base == [ret |-> "Ok", drawn |-> {}, cursor |-> None, inner |-> inner,
               title |-> MergedTitle(input_header),
               borders |-> MergedBorders(input_border_type),
               input_row_height |-> None, rects |-> <<>>,
               prompt_len |-> None, count_len |-> None, indicator_len |-> None,
               chunks |-> <<>>, width |-> None, scroll |-> None]
      outer == [base EXCEPT !.drawn = Render("outer_block", rect)]
      \* 1 + padding.top + padding.bottom in u16: past 65535 a build with
      \* overflow checks panics, one without them wraps.
      height == 1 + input_padding.top + input_padding.bottom
      input_row_height == WrapU16(height)
      after_split(rects) ==
        LET input_inner == Padded(rects[1], input_padding)
            split == [outer EXCEPT
                        !.input_row_height = Some(input_row_height),
                        !.rects = rects,
                        !.drawn = @ \cup Render("separator", rects[2])
                                    \cup PadBlock(rects[1], input_padding)]
            results_inner == Padded(rects[3], results_padding)
            finish(r) ==
              IF r.ret = "Ok"
              THEN [r EXCEPT !.drawn = @ \cup PadBlock(rects[3], results_padding)
                                         \cup Render("results_list", results_inner)]
              ELSE r
        IN IF Area(input_inner) = 0 THEN {split}
           ELSE UNION {
                  {finish(r) : r \in
                     InputRowTail(
                       [split EXCEPT
                          !.prompt_len = Some(merged_prompt_len(input_prompt)),
                          !.count_len = Some(count_len(total_count)),
                          !.indicator_len = Some(indicator_len(matcher_running)),
                          !.chunks = chunks,
                          !.drawn = @ \cup Render("prompt", chunks[1])],
                       chunks, input_state, matcher_running, "loading_char")}
                  : chunks \in SplitRow(input_inner,
                                        merged_prompt_len(input_prompt),
                                        count_len(total_count),
                                        indicator_len(matcher_running))}
      split == UNION {after_split(rects) :
                        rects \in SplitMerged(inner, input_row_height, position)}
  IN IF Area(inner) = 0 THEN {base}
     ELSE IF ~FitsU16(height)
     THEN {[outer EXCEPT !.ret = "panic"]} \cup split
     ELSE split

---------------------------------------------------------------------------
(* The frames *)

Origins == {<<0, 0>>, <<2, 1>>}

Rects ==
  {MkRect(o[1], o[2], w, h) : o \in Origins, w \in 0..MaxWidth, h \in 0..MaxHeight}

Paddings == {NoPadding, MkPadding(1, 0, 1, 1), MkPadding(U16Max, 0, 0, 0)}

BorderTypes == {"None", "Plain", "Rounded", "Double", "Thick"}

Headers ==
  {None, Some(<<>>), Some(<<"a">>), Some(<<"F", "i", "l", "e", "s">>),
   Some(<<"l", "o", "n", "g", " ", "t", "i", "t", "l", "e">>)}

\* The frames of the two input renderers: the narrow ones, and those about
\* as wide as prompt, counter and indicator together and wider.
InputWidths == (0..2) \cup ((MaxWidth - 6)..MaxWidth)

InputRects == {MkRect(2, 1, w, h) : w \in InputWidths, h \in 0..MaxHeight}

MergedRects ==
  {MkRect(2, 1, w, h) : w \in InputWidths, h \in 0..(MaxHeight + 2)}

InputBoxPaddings == {NoPadding, MkPadding(1, 0, 1, 1)}

MergedResultsPaddings == {MkPadding(1, 0, 1, 1)}

InputBorderTypes == {"None", "Rounded"}

InputHeaders == {None, Some(<<>>), Some(<<"F", "i", "l", "e", "s">>)}

ResultsPaddings == {NoPadding, MkPadding(1, 0, 1, 1)}

\* A prompt is its character count.
Prompts == {None, Some(3), Some(U16Max)}

TotalCounts == {U32(0), U32(10)}

InputStates == {[visual_cursor |-> c] : c \in {2, U16Max + 2}}

\* The rects handed to merge_input_results_rects: regions of the terminal
\* buffer, empty ones and one at the far right edge of the u16 range included.
MergeRects ==
  {MkRect(x, y, w, h) : x \in {0, 2, U16Max - MaxWidth}, y \in {0, 1},
                        w \in {0, 2, MaxWidth}, h \in {0, 1, MaxHeight}}

Init ==
  /\ pc = "idle"
  /\ call = [op |-> "none"]
  /\ res = [ret |-> "none"]

PortraitLayout ==
  /\ pc = "idle"
  /\ \E input_position \in InputPositions, preview_hidden \in BOOLEAN,
        area \in Rects :
       LET plan == portrait_merged_constraints(input_position, preview_hidden)
       IN /\ call' = [op |-> "portrait_merged_constraints",
                      input_position |-> input_position,
                      preview_hidden |-> preview_hidden, area |-> area]
          /\ res' = [ret |-> "Ok", plan |-> plan,
                     regions |-> SplitVertical(plan.constraints, area)]
  /\ pc' = "drawn"

MergeInputResultsRects ==
  /\ pc = "idle"
  /\ \E input \in MergeRects, results \in MergeRects :
       /\ call' = [op |-> "merge_input_results_rects", input |-> input,
                   results |-> results]
       /\ res' \in merge_input_results_rects(input, results)
  /\ pc' = "drawn"

DrawResultsList ==
  /\ pc = "idle"
  /\ \E rect \in Rects, input_bar_position \in InputPositions,
        results_panel_padding \in ResultsPaddings,
        results_panel_border_type \in BorderTypes, header \in Headers,
        merge_with_input \in BOOLEAN :
       /\ call' = [op |-> "draw_results_list", rect |-> rect,
                   position |-> input_bar_position,
                   padding |-> results_panel_padding,
                   border_type |-> results_panel_border_type,
                   header |-> header, merge |-> merge_with_input]
       /\ res' \in draw_results_list(rect, input_bar_position,
                                     results_panel_padding,
                                     results_panel_border_type, header,
                                     merge_with_input)
  /\ pc' = "drawn"

DrawInputBox ==
  /\ pc = "idle"
  /\ \E rect \in InputRects, total_count \in TotalCounts,
        input_state \in InputStates, matcher_running \in BOOLEAN,
        position \in InputPositions, header \in InputHeaders,
        padding \in InputBoxPaddings, border_type \in InputBorderTypes,
        prompt \in Prompts, merge_with_results \in BOOLEAN :
       /\ call' = [op |-> "draw_input_box", rect |-> rect,
                   total_count |-> total_count, input_state |-> input_state,
                   matcher_running |-> matcher_running, position |-> position,
                   header |-> header, padding |-> padding,
                   border_type |-> border_type, prompt |-> prompt,
                   merge |-> merge_with_results]
       /\ res' \in draw_input_box(rect, total_count, input_state,
                                  matcher_running, position, header, padding,
                                  border_type, prompt, merge_with_results)
  /\ pc' = "drawn"

DrawMergedInputResults ==
  /\ pc = "idle"
  /\ \E rect \in MergedRects, total_count \in TotalCounts,
        input_state \in InputStates, matcher_running \in BOOLEAN,
        position \in InputPositions, input_header \in InputHeaders,
        input_padding \in Paddings, input_border_type \in InputBorderTypes,
        input_prompt \in Prompts, results_padding \in MergedResultsPaddings :
       /\ call' = [op |-> "draw_merged_input_results", rect |-> rect,
                   total_count |-> total_count, input_state |-> input_state,
                   matcher_running |-> matcher_running, position |-> position,
                   header |-> input_header, padding |-> input_padding,
                   border_type |-> input_border_type, prompt |-> input_prompt,
                   results_padding |-> results_padding]
       /\ res' \in draw_merged_input_results(
                     rect, total_count, input_state, matcher_running, position,
                     input_header, input_padding, input_border_type,
                     input_prompt, results_padding)
  /\ pc' = "drawn"

\* A panic ends the process; after Ok or Err the caller redraws.
NextFrame ==
  /\ pc = "drawn"
  /\ res.ret # "panic"
  /\ pc' = "idle"
  /\ call' = [op |-> "none"]
  /\ res' = [ret |-> "none"]

Next ==
  \/ PortraitLayout
  \/ MergeInputResultsRects
  \/ DrawResultsList
  \/ DrawInputBox
  \/ DrawMergedInputResults
  \/ NextFrame

\* The two input renderers alone
NextInput == DrawInputBox \/ DrawMergedInputResults \/ NextFrame

SpecInput == Init /\ [][NextInput]_vars

Spec == Init /\ [][Next]_vars

\* The rect merge alone
NextMerge == MergeInputResultsRects \/ NextFrame

SpecMerge == Init /\ [][NextMerge]_vars

\* The planner alone
NextPlanner == PortraitLayout \/ NextFrame

SpecPlanner == Init /\ [][NextPlanner]_vars

\* The results renderer and its shared-border painter alone
NextResults == DrawResultsList \/ NextFrame

SpecResults == Init /\ [][NextResults]_vars

\* The counter column over the range of u32: the powers of ten, their
\* neighbours, the small counts and the largest count, in a frame wide
\* enough for prompt and text.
U32Succ(a) ==
  IF a.lo = U16Max THEN MkU32(a.hi + 1, 0) ELSE MkU32(a.hi, a.lo + 1)

U32Pred(a) ==
  IF a.lo = 0 THEN MkU32(a.hi - 1, U16Max) ELSE MkU32(a.hi, a.lo - 1)

CounterTotals ==
  {U32Pow10(k) : k \in 0..9}
    \cup {U32Pred(U32Pow10(k)) : k \in 0..9}
    \cup {U32Succ(U32Pow10(k)) : k \in 0..9}
    \cup {U32(n) : n \in 0..MaxSmallTotal}
    \cup {U32(342), U32Max}

CounterRect == MkRect(2, 1, MaxWidth, MaxHeight + 1)

CountInputBox ==
  /\ pc = "idle"
  /\ \E total_count \in CounterTotals, matcher_running \in BOOLEAN :
       /\ call' = [op |-> "draw_input_box", rect |-> CounterRect,
                   total_count |-> total_count,
                   input_state |-> [visual_cursor |-> 2],
                   matcher_running |-> matcher_running, position |-> "Top",
                   header |-> Some(<<>>), padding |-> NoPadding,
                   border_type |-> "None", prompt |-> None, merge |-> FALSE]
       /\ res' \in draw_input_box(CounterRect, total_count,
                                  [visual_cursor |-> 2], matcher_running,
                                  "Top", Some(<<>>), NoPadding, "None", None,
                                  FALSE)
  /\ pc' = "drawn"

CountMergedInputResults ==
  /\ pc = "idle"
  /\ \E total_count \in CounterTotals, matcher_running \in BOOLEAN :
       /\ call' = [op |-> "draw_merged_input_results", rect |-> CounterRect,
                   total_count |-> total_count,
                   input_state |-> [visual_cursor |-> 2],
                   matcher_running |-> matcher_running, position |-> "Top",
                   header |-> None, padding |-> NoPadding,
                   border_type |-> "None", prompt |-> None,
                   results_padding |-> NoPadding]
       /\ res' \in draw_merged_input_results(
                     CounterRect, total_count, [visual_cursor |-> 2],
                     matcher_running, "Top", None, NoPadding, "None", None,
                     NoPadding)
  /\ pc' = "drawn"

NextCount == CountInputBox \/ CountMergedInputResults \/ NextFrame

SpecCount == Init /\ [][NextCount]_vars

---------------------------------------------------------------------------
(* Properties *)

Drawn(op) == pc = "drawn" /\ call.op = op

Renderers ==
  {"draw_input_box", "draw_merged_input_results", "draw_results_list"}

InputRenderers == {"draw_input_box", "draw_merged_input_results"}

\* C1: a renderer whose frame has an interior of area 0 returns Ok, draws
\* no cell, places no cursor and fails in no arithmetic.
C1_EmptyInteriorDrawsNothing ==
  (pc = "drawn" /\ call.op \in Renderers /\ Area(res.inner) = 0)
    => (res.ret = "Ok" /\ res.drawn = {} /\ res.cursor = None)

\* C2: with the preview visible the planner answers two regions of equal
\* share: the two constraints are the same and the two panels of any split
\* differ by at most one cell.
C2_EqualShares ==
  (Drawn("portrait_merged_constraints") /\ ~call.preview_hidden)
    => /\ Len(res.plan.constraints) = 2
       /\ res.plan.constraints[1] = res.plan.constraints[2]
       /\ res.regions[1].height - res.regions[2].height \in {-1, 0, 1}

\* C3: the regions split off by the planner's constraints tile the source
\* rect: one region per constraint, in order, each as wide as the source,
\* the first at the source's top, each next one starting where the one
\* before ends, and the last ending at the source's bottom.
C3_RegionsTileSource ==
  Drawn("portrait_merged_constraints")
    => LET regions == res.regions
           n == Len(regions)
       IN /\ n = Len(res.plan.constraints)
          /\ n >= 1
          /\ \A i \in 1..n :
               /\ regions[i].x = call.area.x
               /\ regions[i].width = call.area.width
               /\ regions[i].height >= 0
          /\ regions[1].y = call.area.y
          /\ \A i \in 1..(n - 1) :
               regions[i + 1].y = regions[i].y + regions[i].height
          /\ regions[n].y + regions[n].height = call.area.y + call.area.height

C3_Witness ==
  /\ Drawn("portrait_merged_constraints")
  /\ ~call.preview_hidden
  /\ call.input_position = "Bottom"
  /\ call.area.height = MaxHeight
  /\ Len(res.regions) = 2
  /\ res.regions[2].height = MaxHeight

\* C4: the planner's indices address its constraint list and encode the
\* order: preview visible and Top gives results 0, preview Some(1); Bottom
\* gives preview Some(0), results 1; preview hidden gives the single
\* Fill(1), results 0, preview None; input_idx is results_idx and
\* results_idx is never preview_idx.
C4_IndicesEncodeOrder ==
  Drawn("portrait_merged_constraints")
    => LET plan == res.plan
           n == Len(plan.constraints)
       IN /\ plan.input_idx = plan.results_idx
          /\ plan.results_idx \in 0..(n - 1)
          /\ plan.preview_idx # Some(plan.results_idx)
          /\ IsSome(plan.preview_idx) => Unwrap(plan.preview_idx) \in 0..(n - 1)
          /\ call.preview_hidden
               => /\ plan.constraints = <<[kind |-> "Fill", v |-> 1]>>
                  /\ plan.results_idx = 0
                  /\ plan.preview_idx = None
          /\ (~call.preview_hidden /\ call.input_position = "Top")
               => /\ n = 2
                  /\ plan.results_idx = 0
                  /\ plan.preview_idx = Some(1)
          /\ (~call.preview_hidden /\ call.input_position = "Bottom")
               => /\ n = 2
                  /\ plan.preview_idx = Some(0)
                  /\ plan.results_idx = 1

C4_Witness ==
  /\ Drawn("portrait_merged_constraints")
  /\ ~call.preview_hidden
  /\ call.input_position = "Bottom"
  /\ res.plan.results_idx = 1
  /\ res.plan.preview_idx = Some(0)

\* C5: a cursor placed by an input renderer lies in a column of the text
\* field: fieldRect.x <= x < fieldRect.x + fieldRect.width.
C5_CursorInsideField ==
  (pc = "drawn" /\ call.op \in InputRenderers /\ IsSome(res.cursor))
    => /\ res.chunks[2].x <= Unwrap(res.cursor).x
       /\ Unwrap(res.cursor).x < res.chunks[2].x + res.chunks[2].width

\* C6: a prompt width, scroll offset, cursor offset or merged input row
\* height that does not fit u16 ends the draw call in Err: not in a panic,
\* and not in Ok with another value in its place.
PromptTooLong == IsSome(call.prompt) /\ ~FitsU16(Unwrap(call.prompt) + 1)

C6_OverflowIsErr ==
  (pc = "drawn" /\ call.op \in InputRenderers /\ Area(res.inner) # 0)
    => /\ (call.op = "draw_input_box" /\ PromptTooLong) => res.ret = "Err"
       /\ (call.op = "draw_merged_input_results" /\ PromptTooLong
             /\ (IsSome(res.prompt_len) \/ res.ret = "panic"))
            => res.ret = "Err"
       /\ (call.op = "draw_merged_input_results"
             /\ ~FitsU16(1 + call.padding.top + call.padding.bottom))
            => res.ret = "Err"
       /\ (IsSome(res.scroll) /\ ~FitsU16(Unwrap(res.scroll)))
            => res.ret = "Err"
       /\ (IsSome(res.scroll)
             /\ ~FitsU16(Max2(call.input_state.visual_cursor, Unwrap(res.scroll))
                           - Unwrap(res.scroll)))
            => res.ret = "Err"

\* The painter ran and returned: the results frame is fused with the input
\* frame and has one of the four styles.
SharedBorderRan ==
  /\ Drawn("draw_results_list")
  /\ IsSome(res.shared)
  /\ Unwrap(res.shared).ret = "Ok"

\* The vertical glyph of a style, as ratatui's border sets give it.
VerticalGlyph(style) ==
  CASE style \in {"Plain", "Rounded"} -> "vertical"
    [] style = "Double" -> "double_vertical"
    [] style = "Thick" -> "thick_vertical"

HorizontalGlyph(style) ==
  CASE style \in {"Plain", "Rounded"} -> "horizontal"
    [] style = "Double" -> "double_horizontal"
    [] style = "Thick" -> "thick_horizontal"

HeaderFits ==
  /\ IsSome(call.header)
  /\ Unwrap(call.header) # <<>>
  /\ Len(Unwrap(call.header)) + 2 <= call.rect.width - 2

C8_LabelCentred ==
  (SharedBorderRan /\ IsSome(Unwrap(res.shared).line))
    => LET line == Unwrap(Unwrap(res.shared).line)
           interior == SubSeq(line, 2, Len(line) - 1)
           fill == HorizontalGlyph(call.border_type)
           label == <<" ">> \o Unwrap(call.header) \o <<" ">>
           remainder == call.rect.width - 2 - Len(label)
           left == remainder \div 2
           right == remainder - left
       IN /\ HeaderFits
               => /\ Len(interior) = left + Len(label) + right
                  /\ \A i \in 1..left : interior[i] = fill
                  /\ SubSeq(interior, left + 1, left + Len(label)) = label
                  /\ \A i \in (left + Len(label) + 1)..Len(interior) :
                       interior[i] = fill
                  /\ left <= right
                  /\ right - left <= 1
          /\ ~HeaderFits
               => /\ Len(interior) = call.rect.width - 2
                  /\ \A i \in 1..Len(interior) : interior[i] = fill

C8_Witness ==
  /\ SharedBorderRan
  /\ HeaderFits
  /\ call.header = Some(<<"F", "i", "l", "e", "s">>)
  /\ call.rect.width = 12
  /\ IsSome(Unwrap(res.shared).line)
  /\ Unwrap(Unwrap(res.shared).line)[2] = HorizontalGlyph(call.border_type)
  /\ Unwrap(Unwrap(res.shared).line)[3] = " "
  /\ Unwrap(Unwrap(res.shared).line)[10] = HorizontalGlyph(call.border_type)
  /\ Unwrap(Unwrap(res.shared).line)[11] = HorizontalGlyph(call.border_type)

\* The input row was laid out: its four columns exist.
RowLaidOut ==
  /\ pc = "drawn"
  /\ call.op \in InputRenderers
  /\ Len(res.chunks) = 4

RowFits ==
  Unwrap(res.prompt_len) + Unwrap(res.count_len) + Unwrap(res.indicator_len)
    <= res.chunks[1].width + res.chunks[2].width + res.chunks[3].width
         + res.chunks[4].width

\* C9: the busy-indicator column is 1 cell wide in draw_input_box and 2
\* cells wide in draw_merged_input_results, whether or not the matcher runs.
C9_IndicatorWidthFixed ==
  RowLaidOut
    => /\ call.op = "draw_input_box" => res.indicator_len = Some(1)
       /\ call.op = "draw_merged_input_results" => res.indicator_len = Some(2)

\* C9 as the code has it: 1 cell in draw_input_box whether or not the
\* matcher runs; in draw_merged_input_results 2 cells while the matcher
\* runs and no column when it does not.  Where the row fits, the column
\* gets exactly that width, and the glyph is drawn only while the matcher
\* runs.
C9_IndicatorWidth ==
  RowLaidOut
    => /\ call.op = "draw_input_box" => res.indicator_len = Some(1)
       /\ call.op = "draw_merged_input_results"
            => res.indicator_len = Some(IF call.matcher_running THEN 2 ELSE 0)
       /\ RowFits => res.chunks[4].width = Unwrap(res.indicator_len)
       /\ ~call.matcher_running
            => \A d \in res.drawn : d.widget \notin {"spinner", "loading_char"}

C9_Witness ==
  /\ RowLaidOut
  /\ call.op = "draw_merged_input_results"
  /\ ~call.matcher_running
  /\ RowFits
  /\ res.ret = "Ok"
  /\ res.indicator_len = Some(0)
  /\ res.chunks[4].width = 0
  /\ res.chunks[2].width > 0

\* The decimal digits of a u32, by repeated division by ten.
RECURSIVE DecimalDigits(_)
DecimalDigits(n) ==
  IF n.hi = 0 /\ n.lo < 10 THEN 1 ELSE 1 + DecimalDigits(U32Div10(n))

\* C10: in both input renderers the counter column is
\* 3 * (decimal digits of max(total_count, 1)) + 3 wide for every u32
\* total_count, 0 included; the value stays within 16 bits; 342 gives 12.
C10_CounterWidth ==
  RowLaidOut
    => LET d == DecimalDigits(IF call.total_count = U32(0) THEN U32(1)
                               ELSE call.total_count)
       IN /\ res.count_len = Some(3 * d + 3)
          /\ FitsU16(3 * d) /\ FitsU16(3 * d + 3)
          /\ call.total_count = U32(342) => res.count_len = Some(12)
          /\ call.total_count = U32(0) => res.count_len = Some(6)

C10_Witness ==
  /\ RowLaidOut
  /\ call.op = "draw_merged_input_results"
  /\ call.total_count = U32Max
  /\ res.count_len = Some(33)

\* The two default titles: " <channel name> " and " Results ".
DefaultTitles ==
  {Some(Titled(ChannelName)),
   Some(<<" ", "R", "e", "s", "u", "l", "t", "s", " ">>)}

\* C11: in each of the three renderers an empty header (Some("")) gives the
\* frame no title at all, a non-empty header gives the title " <header> ",
\* and a default title is carried only when the header is None.  The frames
\* looked at are those the renderer drew.
C11_HeaderTriState ==
  (pc = "drawn" /\ call.op \in Renderers /\ res.ret = "Ok" /\ res.drawn # {})
    => /\ call.header = Some(<<>>) => res.title = None
       /\ (IsSome(call.header) /\ Unwrap(call.header) # <<>>)
            => res.title = Some(Titled(Unwrap(call.header)))
       /\ res.title \in DefaultTitles => call.header = None

\* The merged renderer split its interior.
MergedSplitRan ==
  /\ Drawn("draw_merged_input_results")
  /\ res.rects # <<>>

\* 1 + padding.top + padding.bottom, as an integer.
WantedInputRowHeight == 1 + call.padding.top + call.padding.bottom

\* The three sub-rects are stacked in the interior and tile it: they have
\* its x and width, start at its top, follow one another and end at its
\* bottom, the input row first for Top and last for Bottom with the
\* separator between the two.
StackedAndTiling ==
  LET input == res.rects[1]
      separator == res.rects[2]
      results == res.rects[3]
      first == IF call.position = "Top" THEN input ELSE results
      last == IF call.position = "Top" THEN results ELSE input
  IN /\ \A i \in 1..3 : /\ res.rects[i].x = res.inner.x
                        /\ res.rects[i].width = res.inner.width
     /\ first.y = res.inner.y
     /\ separator.y = first.y + first.height
     /\ last.y = separator.y + separator.height
     /\ last.y + last.height = res.inner.y + res.inner.height

ExactHeights ==
  /\ res.rects[1].height = WantedInputRowHeight
  /\ res.rects[2].height = 1
  /\ res.rects[3].height = res.inner.height - WantedInputRowHeight - 1

\* C12 as stated: for every non-empty interior the split gives an input
\* row of 1 + padding.top + padding.bottom cells, a separator of 1 cell and
\* the remainder to the results, stacked in the order of the position.
C12_MergedSplitAlways ==
  MergedSplitRan => (StackedAndTiling /\ ExactHeights)

\* C12: for every interior at least 1 + padding.top + padding.bottom + 2
\* cells high (room for the input row, the separator and one results row)
\* the split gives an input row of exactly 1 + padding.top + padding.bottom
\* cells, a separator of exactly 1 cell and the remainder to the results;
\* the three tile the interior, the input row first for Top and last for
\* Bottom with the separator between the two.
C12_MergedSplit ==
  (MergedSplitRan /\ res.inner.height >= WantedInputRowHeight + 2)
    => (StackedAndTiling /\ ExactHeights)

C12_Witness ==
  /\ MergedSplitRan
  /\ call.position = "Bottom"
  /\ call.padding = MkPadding(1, 0, 1, 1)
  /\ res.inner.height = 4
  /\ res.rects[1].height = 2
  /\ res.rects[1].y = res.inner.y + 2
  /\ res.rects[2].y = res.inner.y + 1
  /\ res.rects[3].y = res.inner.y
  /\ res.rects[3].height = 1

\* The edge of the input frame that faces the results frame.
FacingEdge(position) == IF position = "Top" THEN "BOTTOM" ELSE "TOP"

\* a lies inside b.
Within(a, b) ==
  /\ b.x <= a.x
  /\ a.x + a.width <= b.x + b.width
  /\ b.y <= a.y
  /\ a.y + a.height <= b.y + b.height

\* C13: with the two frames fused, a bordered input frame leaves out only
\* the edge facing the results (bottom for Top, top for Bottom); the painter
\* overwrites the row rect.y (Top) or rect.y + rect.height - 1 (Bottom) of
\* the results frame, that row lies inside the results rect and no cell
\* outside the rect is changed.
C13_SharedEdgeRow ==
  /\ (Drawn("draw_input_box") /\ call.merge /\ call.border_type # "None")
       => res.borders = AllBorders \ {FacingEdge(call.position)}
  /\ (SharedBorderRan /\ IsSome(Unwrap(res.shared).border_rect))
       => LET shared == Unwrap(res.shared)
              row == Unwrap(shared.border_rect).y
          IN /\ row = IF call.position = "Top" THEN call.rect.y
                      ELSE call.rect.y + call.rect.height - 1
             /\ call.rect.y <= row
             /\ row < call.rect.y + call.rect.height
             /\ \A d \in shared.drawn : Within(d.area, call.rect)

\* C14: merge_input_results_rects(input, results) answers the zero Rect
\* first and second the bounding rect of the two: x and y the smaller of
\* the two x's and y's, right and bottom edge the larger of the two right
\* and bottom edges; swapping the arguments gives the same pair, and two
\* equal arguments give that argument back.
C14_BoundingRect ==
  Drawn("merge_input_results_rects")
    => /\ res.ret = "Ok"
       /\ res.pair[1] = ZeroRect
       /\ LET merged == res.pair[2]
              input == call.input
              results == call.results
          IN /\ merged.x = Min2(input.x, results.x)
             /\ merged.y = Min2(input.y, results.y)
             /\ merged.x + merged.width
                  = Max2(input.x + input.width, results.x + results.width)
             /\ merged.y + merged.height
                  = Max2(input.y + input.height, results.y + results.height)
             /\ Within(input, merged)
             /\ Within(results, merged)
             /\ merge_input_results_rects(results, input) = {res}
             /\ input = results => merged = input

C14_Witness ==
  /\ Drawn("merge_input_results_rects")
  /\ call.input = MkRect(2, 0, MaxWidth, 1)
  /\ call.results = MkRect(0, 1, 2, MaxHeight)
  /\ res.pair = <<ZeroRect, MkRect(0, 0, MaxWidth + 2, MaxHeight + 1)>>

====
